---- MODULE Spec2Model ----
(***************************************************************************)
(* Token lifecycle and role-based access control of the authentication     *)
(* service (backend/auth-service).                                         *)
(*                                                                         *)
(* State: the users table, the roles table, the refresh-token ledger, the  *)
(* clock, the tokens the service has signed so far, the position of every  *)
(* in-flight /auth/refresh request, and history of what was answered.      *)
(* Time is counted in abstract ticks; the two token lifetimes keep their   *)
(* order (access shorter than refresh).                                    *)
(***************************************************************************)
EXTENDS Integers, Sequences, FiniteSets, TLC

VARIABLES
    users,      \* users table: id -> row
    roles,      \* roles table: name -> row
    ledger,     \* refresh_tokens table: set of rows
    now,        \* the clock
    issued,     \* the token pairs signed so far, in order of issue
    req,        \* per worker: position of its /auth/refresh request
    fresh,      \* the pair minted by the latest step and the handler that minted it
    rotCount,   \* per pair index: number of 200 responses to a refresh presenting its refresh token
    loggedOut,  \* jtis a logout request has revoked
    pwChanged,  \* jtis of refresh tokens issued before a successful change_password of their owner
    pwLast,     \* per user: <<current, new>> of the last successful change_password, or <<>>
    resp,       \* the response to the latest request on a probe route
    txn,        \* per worker: the in-flight sweep or registration and what it has read
    cap         \* how many token pairs this run may mint

vars ==
    <<users, roles, ledger, now, issued, req, fresh, rotCount, loggedOut, pwChanged, pwLast,
      resp, txn, cap>>

----------------------------------------------------------------------------
(* Bounds of the exploration *)

MaxTime == 3

MaxTokens == 3

MaxSessions == 2

----------------------------------------------------------------------------
(* Configuration *)

JWT_ACCESS_TOKEN_EXPIRES == 1

JWT_REFRESH_TOKEN_EXPIRES == 2

----------------------------------------------------------------------------
(* Value spaces *)

Workers == {"w1", "w2"}

UserIds == {"u1", "u2"}

NoUser == "nobody"

Emails == {"admin@x", "user@x", "ghost@x"}

Passwords == {"", "weak", "AdminPass1!", "UserPass1!"}

NoJti == <<"none", 0>>

\* last_login_at of a user who never logged in
NoTime == 0 - 1

NoTok == [kind |-> "none", sig |-> FALSE, sub |-> NoUser, jti |-> NoJti, iat |-> 0,
          exp |-> 0, username |-> "", roles |-> <<>>, permissions |-> <<>>]

----------------------------------------------------------------------------
(* Password hasher *)

hash_password(password) == <<"pbkdf2", password>>

verify_password(password, password_hash) == password_hash = hash_password(password)

ValidatePassword(password) == password \in {"AdminPass1!", "UserPass1!"}

----------------------------------------------------------------------------
(* Role model: permissions are stored as one comma-separated string.  A     *)
(* string is a sequence of characters, the comma being one of them.         *)

RECURSIVE Join(_)
Join(perms) ==
    IF perms = <<>> THEN <<>>
    ELSE IF Len(perms) = 1 THEN perms[1]
    ELSE perms[1] \o <<",">> \o Join(Tail(perms))

RECURSIVE Split(_)
Split(s) ==
    IF \A i \in 1..Len(s) : s[i] # ","
    THEN <<s>>
    ELSE LET k == CHOOSE i \in 1..Len(s) : s[i] = "," /\ \A j \in 1..(i-1) : s[j] # ","
         IN <<SubSeq(s, 1, k-1)>> \o Split(SubSeq(s, k+1, Len(s)))

get_permissions(role) == IF role.permissions # <<>> THEN Split(role.permissions) ELSE <<>>

RECURSIVE Flatten(_)
Flatten(ss) == IF ss = <<>> THEN <<>> ELSE ss[1] \o Flatten(Tail(ss))

----------------------------------------------------------------------------
(* Token codec *)

RoleNamesOf(user) == user.roles

PermissionsOf(R, user) ==
    Flatten([i \in 1..Len(user.roles) |-> get_permissions(R[user.roles[i]])])

generate_tokens(U, R, uid, n, t) ==
    [access  |-> [kind |-> "access", sig |-> TRUE, sub |-> uid, jti |-> <<"a", n>>,
                  iat |-> t, exp |-> t + JWT_ACCESS_TOKEN_EXPIRES,
                  username |-> U[uid].username,
                  roles |-> RoleNamesOf(U[uid]),
                  permissions |-> PermissionsOf(R, U[uid])],
     refresh |-> [kind |-> "refresh", sig |-> TRUE, sub |-> uid, jti |-> <<"r", n>>,
                  iat |-> t, exp |-> t + JWT_REFRESH_TOKEN_EXPIRES,
                  username |-> "", roles |-> <<>>, permissions |-> <<>>]]

\* jwt.decode: signature first, then (unless disabled) the exp claim
JwtDecodeOk(tok, verify_exp) ==
    /\ tok.sig
    /\ (verify_exp => ~(tok.exp <= now))

\* variant: the owner's row is looked up and must be active
validate_access_token_active_owner(tok) ==
    JwtDecodeOk(tok, TRUE) /\ tok.sub \in DOMAIN users /\ users[tok.sub].is_active

\* variant: the claims are read without verifying the signature
validate_access_token_unverified(tok) == ~(tok.exp <= now)

validate_access_token(tok) == JwtDecodeOk(tok, TRUE)

\* the claims a token carries
Claims(tok) ==
    [sub |-> tok.sub, username |-> tok.username, roles |-> tok.roles,
     permissions |-> tok.permissions, exp |-> tok.exp, iat |-> tok.iat, jti |-> tok.jti]

\* the second component of validate_access_token's result: the payload, or {}
access_token_payload(tok) ==
    IF validate_access_token(tok) THEN Claims(tok) ELSE Claims(NoTok)

----------------------------------------------------------------------------
(* Refresh-token ledger *)

\* variant: storing a row also renews the expiry of the user's other rows
store_refresh_token_renewing(L, uid, jti, n, t) ==
    {IF r.user_id = uid THEN [r EXCEPT !.expires_at = t + JWT_REFRESH_TOKEN_EXPIRES] ELSE r
       : r \in L}
      \cup {[id |-> n, token |-> jti, user_id |-> uid,
              expires_at |-> t + JWT_REFRESH_TOKEN_EXPIRES, is_revoked |-> FALSE]}

store_refresh_token(L, uid, jti, n, t) ==
    L \cup {[id |-> n, token |-> jti, user_id |-> uid,
             expires_at |-> t + JWT_REFRESH_TOKEN_EXPIRES, is_revoked |-> FALSE]}

\* variant: the row's flag is flipped instead of set
revoke_refresh_token_flip(L, jti) ==
    {IF r.token = jti THEN [r EXCEPT !.is_revoked = ~@] ELSE r : r \in L}

\* variant: the row is found but its flag is never set
revoke_refresh_token_unset(L, jti) == L

revoke_refresh_token(L, jti) ==
    {IF r.token = jti THEN [r EXCEPT !.is_revoked = TRUE] ELSE r : r \in L}

\* variant: the ledger query does not filter on is_revoked
validate_refresh_token_any_row(L, U, tok) ==
    LET fail == [valid |-> FALSE, user |-> NoUser, jti |-> NoJti, ledger |-> L] IN
    IF ~JwtDecodeOk(tok, TRUE) THEN fail
    ELSE LET db == {r \in L : r.token = tok.jti} IN
         IF db = {} THEN fail
         ELSE LET db_token == CHOOSE r \in db : TRUE IN
              IF db_token.expires_at < now
              THEN [fail EXCEPT !.ledger = (L \ {db_token})
                                             \cup {[db_token EXCEPT !.is_revoked = TRUE]}]
              ELSE IF tok.sub \notin DOMAIN U \/ ~U[tok.sub].is_active THEN fail
              ELSE [valid |-> TRUE, user |-> tok.sub, jti |-> tok.jti, ledger |-> L]

\* variant: the owner's is_active flag is not looked at
validate_refresh_token_any_user(L, U, tok) ==
    LET fail == [valid |-> FALSE, user |-> NoUser, jti |-> NoJti, ledger |-> L] IN
    IF ~JwtDecodeOk(tok, TRUE) THEN fail
    ELSE LET db == {r \in L : r.token = tok.jti /\ ~r.is_revoked} IN
         IF db = {} THEN fail
         ELSE LET db_token == CHOOSE r \in db : TRUE IN
              IF db_token.expires_at < now
              THEN [fail EXCEPT !.ledger = (L \ {db_token})
                                             \cup {[db_token EXCEPT !.is_revoked = TRUE]}]
              ELSE IF tok.sub \notin DOMAIN U THEN fail
              ELSE [valid |-> TRUE, user |-> tok.sub, jti |-> tok.jti, ledger |-> L]

validate_refresh_token(L, U, tok) ==
    LET fail == [valid |-> FALSE, user |-> NoUser, jti |-> NoJti, ledger |-> L] IN
    IF ~JwtDecodeOk(tok, TRUE) THEN fail
    ELSE LET db == {r \in L : r.token = tok.jti /\ ~r.is_revoked} IN
         IF db = {} THEN fail
         ELSE LET db_token == CHOOSE r \in db : TRUE IN
              IF db_token.expires_at < now
              THEN [fail EXCEPT !.ledger = (L \ {db_token})
                                             \cup {[db_token EXCEPT !.is_revoked = TRUE]}]
              ELSE IF tok.sub \notin DOMAIN U \/ ~U[tok.sub].is_active THEN fail
              ELSE [valid |-> TRUE, user |-> tok.sub, jti |-> tok.jti, ledger |-> L]

get_user_by_email(U, email) ==
    IF \E u \in DOMAIN U : U[u].email = email
    THEN CHOOSE u \in DOMAIN U : U[u].email = email
    ELSE NoUser

get_user_by_id(U, user_id) == IF user_id \in DOMAIN U THEN user_id ELSE NoUser

\* AuthService.update_last_login
update_last_login(U, user) == [U EXCEPT ![user].last_login_at = now]

UserRefreshTokens(L, uid) == {r \in L : r.user_id = uid}

RevokeAllOf(L, uid) ==
    {IF r.user_id = uid THEN [r EXCEPT !.is_revoked = TRUE] ELSE r : r \in L}

----------------------------------------------------------------------------
(* Authorization header and middleware *)

Word(s) == [w |-> s, t |-> NoTok]

TokWord(tok) == [w |-> "tok", t |-> tok]

NoHeader == [present |-> FALSE, parts |-> <<>>]

Header(parts) == [present |-> TRUE, parts |-> parts]

Bearer(tok) == Header(<<Word("Bearer"), TokWord(tok)>>)

Lower(s) == IF s = "Bearer" THEN "bearer" ELSE s

NoG == [user_id |-> NoUser, username |-> "", roles |-> <<>>, permissions |-> <<>>]

Range(seq) == {seq[i] : i \in 1..Len(seq)}

\* status 0: the wrapped handler is called with g
authenticate(hdr) ==
    IF ~hdr.present
    THEN [status |-> 401, msg |-> "Missing authorization header", g |-> NoG]
    ELSE IF hdr.parts = <<>>
    THEN [status |-> 500, msg |-> "Internal server error", g |-> NoG]
    ELSE IF Lower(hdr.parts[1].w) # "bearer" \/ Len(hdr.parts) # 2
    THEN [status |-> 401, msg |-> "Invalid authorization header format", g |-> NoG]
    ELSE LET token == hdr.parts[2].t IN
         IF ~validate_access_token(token)
         THEN [status |-> 401, msg |-> "Invalid or expired token", g |-> NoG]
         ELSE [status |-> 0, msg |-> "",
               g |-> [user_id |-> token.sub, username |-> token.username,
                      roles |-> token.roles, permissions |-> token.permissions]]

require_permissions(hdr, permissions, require_all) ==
    LET a == authenticate(hdr) IN
    IF a.status # 0 THEN a
    ELSE IF require_all
    THEN IF ~(\A perm \in permissions : perm \in Range(a.g.permissions))
         THEN [a EXCEPT !.status = 403, !.msg = "Insufficient permissions"]
         ELSE a
    ELSE IF ~(\E perm \in permissions : perm \in Range(a.g.permissions))
         THEN [a EXCEPT !.status = 403, !.msg = "Insufficient permissions"]
         ELSE a

require_roles(hdr, rs, require_all) ==
    LET a == authenticate(hdr) IN
    IF a.status # 0 THEN a
    ELSE IF require_all
    THEN IF ~(\A role \in rs : role \in Range(a.g.roles))
         THEN [a EXCEPT !.status = 403, !.msg = "Insufficient roles"]
         ELSE a
    ELSE IF ~(\E role \in rs : role \in Range(a.g.roles))
         THEN [a EXCEPT !.status = 403, !.msg = "Insufficient roles"]
         ELSE a

\* variant: the caller's roles are read from the users table
before_admin_request_stored_roles(hdr) ==
    LET a == authenticate(hdr) IN
    IF a.status # 0 THEN a
    ELSE IF a.g.user_id \in DOMAIN users /\ "admin" \in Range(users[a.g.user_id].roles)
    THEN a
    ELSE [a EXCEPT !.status = 403, !.msg = "Insufficient roles"]

before_admin_request(hdr) == require_roles(hdr, {"admin"}, FALSE)


----------------------------------------------------------------------------
(* Request handlers.  A handler is an operator from the request's inputs   *)
(* and the current tables to its response and the tables it commits;       *)
(* mint names the user for whom it goes on to call generate_tokens and     *)
(* store_refresh_token (NoUser: it does not).                              *)

Result(status, msg, U, L, mint) ==
    [status |-> status, msg |-> msg, users |-> U, ledger |-> L, mint |-> mint]

Fail(status, msg) == Result(status, msg, users, ledger, NoUser)

\* variant: a wrong password is answered differently from an unknown email
login_telling(email, password) ==
    IF email = "" \/ password = ""
    THEN Fail(400, "Email and password are required")
    ELSE LET user == get_user_by_email(users, email) IN
         IF user = NoUser \/ ~users[user].is_active
         THEN Fail(401, "Invalid credentials")
         ELSE IF ~verify_password(password, users[user].password_hash)
         THEN Fail(401, "Wrong password")
         ELSE Result(200, "", update_last_login(users, user), ledger, user)

\* POST /auth/login
login(email, password) ==
    IF email = "" \/ password = ""
    THEN Fail(400, "Email and password are required")
    ELSE LET user == get_user_by_email(users, email) IN
         IF user = NoUser \/ ~users[user].is_active
         THEN Fail(401, "Invalid credentials")
         ELSE IF ~verify_password(password, users[user].password_hash)
         THEN Fail(401, "Invalid credentials")
         ELSE Result(200, "", update_last_login(users, user), ledger, user)

\* POST /auth/refresh up to the validity check.  Past that check nothing makes
\* the handler leave early: status 200 is the response it sends once it has
\* revoked the presented token and minted and stored the replacement (user and
\* jti are what it carries into those steps)
refresh_token(tok) ==
    IF tok = NoTok
    THEN [status |-> 400, msg |-> "Refresh token is required", ledger |-> ledger,
          user |-> NoUser, jti |-> NoJti]
    ELSE LET v == validate_refresh_token(ledger, users, tok) IN
         IF ~v.valid \/ v.user = NoUser
         THEN [status |-> 401, msg |-> "Invalid or expired refresh token",
               ledger |-> v.ledger, user |-> NoUser, jti |-> NoJti]
         ELSE [status |-> 200, msg |-> "", ledger |-> v.ledger, user |-> v.user, jti |-> v.jti]

\* variant: sessions are revoked and a pair is issued, the hash stays
change_password_keeps_hash(hdr, current_password, new_password) ==
    LET a == authenticate(hdr) IN
    IF a.status # 0 THEN Fail(a.status, a.msg)
    ELSE IF current_password = "" \/ new_password = ""
    THEN Fail(400, "Current password and new password are required")
    ELSE IF ~ValidatePassword(new_password)
    THEN Fail(400, "Password is invalid")
    ELSE LET user == get_user_by_id(users, a.g.user_id) IN
         IF user = NoUser THEN Fail(404, "User not found")
         ELSE IF ~verify_password(current_password, users[user].password_hash)
         THEN Fail(401, "Current password is incorrect")
         ELSE Result(200, "Password changed successfully", users,
                     RevokeAllOf(ledger, user), user)

\* POST /users/me/change-password
change_password(hdr, current_password, new_password) ==
    LET a == authenticate(hdr) IN
    IF a.status # 0 THEN Fail(a.status, a.msg)
    ELSE IF current_password = "" \/ new_password = ""
    THEN Fail(400, "Current password and new password are required")
    ELSE IF ~ValidatePassword(new_password)
    THEN Fail(400, "Password is invalid")
    ELSE LET user == get_user_by_id(users, a.g.user_id) IN
         IF user = NoUser THEN Fail(404, "User not found")
         ELSE IF ~verify_password(current_password, users[user].password_hash)
         THEN Fail(401, "Current password is incorrect")
         ELSE Result(200, "Password changed successfully",
                     [users EXCEPT ![user].password_hash = hash_password(new_password)],
                     RevokeAllOf(ledger, user), user)

\* variant: the token is decoded but not revoked
logout_keeps(hdr, refresh_tok) ==
    LET a == authenticate(hdr) IN
    IF a.status # 0 THEN Fail(a.status, a.msg)
    ELSE Fail(200, "Logged out successfully")

\* POST /users/me/logout
logout(hdr, refresh_tok) ==
    LET a == authenticate(hdr) IN
    IF a.status # 0 THEN Fail(a.status, a.msg)
    ELSE IF refresh_tok = NoTok THEN Fail(200, "Logged out successfully")
    ELSE IF ~JwtDecodeOk(refresh_tok, FALSE) THEN Fail(200, "Logged out successfully")
    ELSE Result(200, "Logged out successfully", users,
                revoke_refresh_token(ledger, refresh_tok.jti), NoUser)

\* variant: the session is looked up among all rows, and no owner check follows
revoke_session_any_owner(hdr, session_id) ==
    LET a == authenticate(hdr) IN
    IF a.status # 0 THEN Fail(a.status, a.msg)
    ELSE LET user == get_user_by_id(users, a.g.user_id) IN
         IF user = NoUser THEN Fail(404, "User not found")
         ELSE LET found == {r \in ledger : r.id = session_id} IN
              IF found = {} THEN Fail(404, "Session not found")
              ELSE LET token == CHOOSE r \in found : TRUE IN
                   Result(200, "Session revoked successfully", users,
                          (ledger \ {token}) \cup {[token EXCEPT !.is_revoked = TRUE]},
                          NoUser)

\* variant: revoked rows are listed too
get_active_sessions_unfiltered(hdr) ==
    LET a == authenticate(hdr) IN
    IF a.status # 0 THEN [status |-> a.status, msg |-> a.msg, sessions |-> {}]
    ELSE LET user == get_user_by_id(users, a.g.user_id) IN
         IF user = NoUser THEN [status |-> 404, msg |-> "User not found", sessions |-> {}]
         ELSE [status |-> 200, msg |-> "",
               sessions |-> {token.id : token \in
                               {r \in UserRefreshTokens(ledger, user) : r.expires_at > now}}]

\* GET /users/me/sessions; the response lists the ids of the active rows
get_active_sessions(hdr) ==
    LET a == authenticate(hdr) IN
    IF a.status # 0 THEN [status |-> a.status, msg |-> a.msg, sessions |-> {}]
    ELSE LET user == get_user_by_id(users, a.g.user_id) IN
         IF user = NoUser THEN [status |-> 404, msg |-> "User not found", sessions |-> {}]
         ELSE [status |-> 200, msg |-> "",
               sessions |-> {token.id : token \in
                               {r \in UserRefreshTokens(ledger, user) :
                                   ~r.is_revoked /\ r.expires_at > now}}]

\* DELETE /users/me/sessions/<session_id>
revoke_session(hdr, session_id) ==
    LET a == authenticate(hdr) IN
    IF a.status # 0 THEN Fail(a.status, a.msg)
    ELSE LET user == get_user_by_id(users, a.g.user_id) IN
         IF user = NoUser THEN Fail(404, "User not found")
         ELSE LET found == {r \in UserRefreshTokens(ledger, user) : r.id = session_id} IN
              IF found = {} THEN Fail(404, "Session not found")
              ELSE LET token == CHOOSE r \in found : TRUE IN
                   IF token.user_id # a.g.user_id THEN Fail(401, "Unauthorized")
                   ELSE Result(200, "Session revoked successfully", users,
                               (ledger \ {token}) \cup {[token EXCEPT !.is_revoked = TRUE]},
                               NoUser)

\* variant: the current session is revoked with the others
revoke_all_sessions_current_too(hdr, current_refresh_token) ==
    LET a == authenticate(hdr) IN
    IF a.status # 0 THEN Fail(a.status, a.msg)
    ELSE LET user == get_user_by_id(users, a.g.user_id) IN
         IF user = NoUser THEN Fail(404, "User not found")
         ELSE Result(200, "All other sessions revoked successfully", users,
                     {IF r.user_id = user
                      THEN [r EXCEPT !.is_revoked = TRUE] ELSE r : r \in ledger},
                     NoUser)

\* DELETE /users/me/sessions
revoke_all_sessions(hdr, current_refresh_token) ==
    LET a == authenticate(hdr) IN
    IF a.status # 0 THEN Fail(a.status, a.msg)
    ELSE LET user == get_user_by_id(users, a.g.user_id) IN
         IF user = NoUser THEN Fail(404, "User not found")
         ELSE LET current_token_jti ==
                      IF current_refresh_token # NoTok
                         /\ JwtDecodeOk(current_refresh_token, FALSE)
                      THEN current_refresh_token.jti ELSE NoJti
              IN Result(200, "All other sessions revoked successfully", users,
                        {IF r.user_id = user
                            /\ (current_token_jti = NoJti \/ r.token # current_token_jti)
                         THEN [r EXCEPT !.is_revoked = TRUE] ELSE r : r \in ledger},
                        NoUser)

\* POST /admin/users/<user_id>/activate
activate_user(hdr, user_id) ==
    LET a == before_admin_request(hdr) IN
    IF a.status # 0 THEN Fail(a.status, a.msg)
    ELSE LET user == get_user_by_id(users, user_id) IN
         IF user = NoUser THEN Fail(404, "User not found")
         ELSE Result(200, "User activated successfully",
                     [users EXCEPT ![user].is_active = TRUE], ledger, NoUser)

\* POST /admin/users/<user_id>/deactivate
deactivate_user(hdr, user_id) ==
    LET a == before_admin_request(hdr) IN
    IF a.status # 0 THEN Fail(a.status, a.msg)
    ELSE LET user == get_user_by_id(users, user_id) IN
         IF user = NoUser THEN Fail(404, "User not found")
         ELSE LET is_admin == "admin" \in Range(users[user].roles)
                  admins_count == Cardinality({u \in DOMAIN users :
                                     /\ "admin" \in Range(users[u].roles)
                                     /\ users[u].is_active
                                     /\ u # user})
              IN IF is_admin /\ admins_count = 0
                 THEN Fail(403, "Cannot deactivate the last admin user")
                 ELSE Result(200, "User deactivated successfully",
                             [users EXCEPT ![user].is_active = FALSE], ledger, NoUser)

\* variant: revoked rows are swept with the expired ones
expired_tokens_and_revoked(L) == {r \in L : r.expires_at < now \/ r.is_revoked}

\* the rows AuthService.clean_expired_tokens loads
expired_tokens(L) == {r \in L : r.expires_at < now}

\* the rows db_session.delete removes at the commit: those of the loaded rows
\* that are still stored, whatever has been written to them since
delete_tokens(L, loaded) == {r \in L : r.id \notin {x.id : x \in loaded}}

\* AuthService.clean_expired_tokens, the ledger after a call nothing interleaves with
clean_expired_tokens(L) == delete_tokens(L, expired_tokens(L))

\* GET /users/protected-test
protected_test(hdr) ==
    LET a == authenticate(hdr) IN
    IF a.status # 0 THEN [status |-> a.status, msg |-> a.msg, ran |-> FALSE]
    ELSE [status |-> 200, msg |-> "Hello", ran |-> TRUE]

\* a handler wrapped by require_roles(required, require_all)
role_route(hdr, required, require_all) ==
    LET a == require_roles(hdr, required, require_all) IN
    IF a.status # 0 THEN [status |-> a.status, msg |-> a.msg, ran |-> FALSE]
    ELSE [status |-> 200, msg |-> "handler", ran |-> TRUE]

\* a handler wrapped by require_permissions(required, require_all)
permission_route(hdr, required, require_all) ==
    LET a == require_permissions(hdr, required, require_all) IN
    IF a.status # 0 THEN [status |-> a.status, msg |-> a.msg, ran |-> FALSE]
    ELSE [status |-> 200, msg |-> "handler", ran |-> TRUE]

\* GET /admin/roles
get_all_roles(hdr) ==
    LET a == before_admin_request(hdr) IN
    IF a.status # 0 THEN [status |-> a.status, msg |-> a.msg, ran |-> FALSE]
    ELSE [status |-> 200, msg |-> "roles", ran |-> TRUE]

\* optional request fields
Some(x) == [given |-> TRUE, val |-> x]

None == [given |-> FALSE, val |-> <<>>]

RoleResult(status, msg, R, U) == [status |-> status, msg |-> msg, roles |-> R, users |-> U]

RoleFail(status, msg) == RoleResult(status, msg, roles, users)

\* re.match(r'^[a-zA-Z0-9_-]{3,50}', name)
RoleNameMatches(name) == name \in {"admin", "user", "editor"}

get_role_by_name(R, name) == IF name \in DOMAIN R THEN name ELSE "no-role"

\* POST /admin/roles
create_role(hdr, name, description, permissions) ==
    LET a == before_admin_request(hdr) IN
    IF a.status # 0 THEN RoleFail(a.status, a.msg)
    ELSE IF name = "" THEN RoleFail(400, "Role name is required")
    ELSE IF ~RoleNameMatches(name) THEN RoleFail(400, "Role name must be 3-50 characters")
    ELSE IF get_role_by_name(roles, name) # "no-role" THEN RoleFail(400, "Role already exists")
    ELSE LET perms_str == IF permissions # <<>> THEN Join(permissions) ELSE <<>>
             row == [description |-> description, permissions |-> perms_str]
         IN RoleResult(201, "Role created successfully",
                       [n \in DOMAIN roles \cup {name} |-> IF n = name THEN row ELSE roles[n]],
                       users)

\* variant: the description is committed before the admin role's permissions are refused
update_role_description_first(hdr, role_name, description, permissions) ==
    LET a == before_admin_request(hdr) IN
    IF a.status # 0 THEN RoleFail(a.status, a.msg)
    ELSE IF get_role_by_name(roles, role_name) = "no-role" THEN RoleFail(404, "Role not found")
    ELSE LET d == IF description.given THEN description.val ELSE roles[role_name].description
             ps == IF permissions.given THEN Join(permissions.val)
                   ELSE roles[role_name].permissions
         IN IF role_name = "admin" /\ permissions.given
            THEN RoleResult(403, "Cannot modify permissions for the admin role",
                            [roles EXCEPT ![role_name].description = d], users)
            ELSE RoleResult(200, "Role updated successfully",
                            [roles EXCEPT ![role_name] = [description |-> d,
                                                          permissions |-> ps]],
                            users)

\* PUT /admin/roles/<role_name>
update_role(hdr, role_name, description, permissions) ==
    LET a == before_admin_request(hdr) IN
    IF a.status # 0 THEN RoleFail(a.status, a.msg)
    ELSE IF get_role_by_name(roles, role_name) = "no-role" THEN RoleFail(404, "Role not found")
    ELSE IF role_name = "admin" /\ permissions.given
    THEN RoleFail(403, "Cannot modify permissions for the admin role")
    ELSE LET d == IF description.given THEN description.val ELSE roles[role_name].description
             ps == IF permissions.given THEN Join(permissions.val)
                   ELSE roles[role_name].permissions
         IN RoleResult(200, "Role updated successfully",
                       [roles EXCEPT ![role_name] = [description |-> d, permissions |-> ps]],
                       users)

\* variant: the roles appended before an unknown name are committed
update_user_roles_partial(hdr, user_id, role_names) ==
    LET a == before_admin_request(hdr) IN
    IF a.status # 0 THEN RoleFail(a.status, a.msg)
    ELSE IF role_names = <<>> THEN RoleFail(400, "At least one role must be provided")
    ELSE LET user == get_user_by_id(users, user_id) IN
         IF user = NoUser THEN RoleFail(404, "User not found")
         ELSE IF \E i \in 1..Len(role_names) :
                    get_role_by_name(roles, role_names[i]) = "no-role"
         THEN LET k == CHOOSE i \in 1..Len(role_names) :
                          /\ get_role_by_name(roles, role_names[i]) = "no-role"
                          /\ \A j \in 1..(i-1) :
                                get_role_by_name(roles, role_names[j]) # "no-role"
              IN RoleResult(404, "Role not found", roles,
                            [users EXCEPT ![user].roles = SubSeq(role_names, 1, k-1)])
         ELSE RoleResult(200, "User roles updated successfully", roles,
                         [users EXCEPT ![user].roles = role_names])

\* PUT /admin/users/<user_id>/roles
update_user_roles(hdr, user_id, role_names) ==
    LET a == before_admin_request(hdr) IN
    IF a.status # 0 THEN RoleFail(a.status, a.msg)
    ELSE IF role_names = <<>> THEN RoleFail(400, "At least one role must be provided")
    ELSE LET user == get_user_by_id(users, user_id) IN
         IF user = NoUser THEN RoleFail(404, "User not found")
         ELSE IF \E i \in 1..Len(role_names) :
                    get_role_by_name(roles, role_names[i]) = "no-role"
         THEN RoleFail(404, "Role not found")
         ELSE RoleResult(200, "User roles updated successfully", roles,
                         [users EXCEPT ![user].roles = role_names])

\* the lists list(set(...)) can return for a set: its elements once each, in any order
ListsOf(S) ==
    {l \in [1..Cardinality(S) -> S] : \A i, j \in 1..Cardinality(S) : l[i] = l[j] => i = j}

\* variant: the concatenated list is returned as it is
get_user_permissions_concatenated(R, user) == {PermissionsOf(R, user)}

\* RBACService.get_user_permissions: the lists a call can return
get_user_permissions(R, user) == ListsOf(Range(PermissionsOf(R, user)))

user_has_permission(R, user, permission) ==
    \A l \in get_user_permissions(R, user) : permission \in Range(l)

user_has_role(user, role_name) ==
    \E i \in 1..Len(user.roles) : user.roles[i] = role_name

Without(seq, x) == SelectSeq(seq, LAMBDA e : e # x)

\* variant: the reserved names are not refused
delete_role_unguarded(hdr, role_name) ==
    LET a == before_admin_request(hdr) IN
    IF a.status # 0 THEN RoleFail(a.status, a.msg)
    ELSE IF get_role_by_name(roles, role_name) = "no-role" THEN RoleFail(404, "Role not found")
    ELSE RoleResult(200, "Role deleted successfully",
                    [n \in DOMAIN roles \ {role_name} |-> roles[n]],
                    [u \in DOMAIN users |->
                       [users[u] EXCEPT !.roles = Without(@, role_name)]])

\* DELETE /admin/roles/<role_name>
delete_role(hdr, role_name) ==
    LET a == before_admin_request(hdr) IN
    IF a.status # 0 THEN RoleFail(a.status, a.msg)
    ELSE IF role_name \in {"admin", "user"} THEN RoleFail(403, "Cannot delete the role")
    ELSE IF get_role_by_name(roles, role_name) = "no-role" THEN RoleFail(404, "Role not found")
    ELSE RoleResult(200, "Role deleted successfully",
                    [n \in DOMAIN roles \ {role_name} |-> roles[n]],
                    [u \in DOMAIN users |->
                       [users[u] EXCEPT !.roles = Without(@, role_name)]])

----------------------------------------------------------------------------
(* Requests in flight and client inputs *)

IdleReq == [pc |-> "idle", user |-> NoUser, jti |-> NoJti]

InFlight == Cardinality({w \in Workers : req[w].pc # "idle"})

\* room for one more token pair, counting the pairs in-flight refreshes will mint
Room == Len(issued) + InFlight < cap

AccessTokens == {issued[i].access : i \in 1..Len(issued)}

RefreshTokens == {issued[i].refresh : i \in 1..Len(issued)}

SignedTokens == AccessTokens \cup RefreshTokens

\* a token the service did not sign: the claims of a signed one, a later expiry
Forged(tok) == [tok EXCEPT !.sig = FALSE, !.exp = MaxTime + 2]

\* what a client can put in a token field: nothing, a forgery, or any token
\* this service has signed
Presentable == {NoTok} \cup SignedTokens \cup {Forged(t) : t \in RefreshTokens}

\* what a client can put in the token field of a logout or revoke-all request
BodyTokens == {NoTok} \cup SignedTokens

\* (current_password, new_password) pairs of change-password requests
PasswordChanges ==
    {<<"", "UserPass1!">>, <<"UserPass1!", "weak">>, <<"AdminPass1!", "UserPass1!">>,
     <<"UserPass1!", "UserPass1!">>, <<"UserPass1!", "AdminPass1!">>}

\* Authorization headers a client can send
Headers ==
    {NoHeader, Header(<<>>), Header(<<Word("Bearer")>>)}
      \cup {Header(<<TokWord(t)>>) : t \in SignedTokens}
      \cup {Header(<<Word("Basic"), TokWord(t)>>) : t \in SignedTokens}
      \cup {Header(<<Word("Bearer"), TokWord(t)>>) : t \in Presentable}
      \cup {Header(<<Word("bearer"), TokWord(t)>>) : t \in SignedTokens}
      \cup {Header(<<Word("Bearer"), TokWord(t), Word("x")>>) : t \in SignedTokens}

\* the headers of clients that follow the Bearer scheme, and no header
CallerHeaders == {NoHeader} \cup {Bearer(t) : t \in SignedTokens}

\* the headers of clients that send their access token, and no header
AccessHeaders == {NoHeader} \cup {Bearer(t) : t \in AccessTokens}

SessionIds == 1..MaxTokens

UserIdInputs == UserIds \cup {"u9"}

RoleNameInputs == {"", "x", "admin", "user", "editor"}

DescriptionInputs == {"d0", "d1"}

\* permission lists of role requests; a permission is a string, one of them
\* contains a comma
PermissionLists == {<<>>, << <<"m">> >>, << <<"r">>, <<"u">> >>, << <<"r", ",", "u">> >>}

RoleSets == {{"admin"}, {"user"}, {"admin", "user"}, {}}

PermissionSets == {{<<"m">>}, {<<"r">>}, {<<"m">>, <<"r">>}, {}}

\* role lists of role-assignment requests
RoleLists ==
    {<<>>, <<"user">>, <<"editor">>, <<"user", "admin">>, <<"user", "editor">>,
     <<"user", "x">>}

InitialRoles ==
    [r \in {"admin", "user"} |->
       IF r = "admin"
       THEN [description |-> "d0", permissions |-> <<"m">>]
       ELSE [description |-> "d0", permissions |-> <<"r", ",", "u">>]]

PairIndex(jti) == jti[2]

IdleTxn == [op |-> "idle"]

NoFresh == [n |-> 0, origin |-> "none"]

----------------------------------------------------------------------------
InitWith(c) ==
    /\ cap = c
    /\ users = [u \in UserIds |->
                 IF u = "u1"
                 THEN [email |-> "admin@x", username |-> "admin",
                       password_hash |-> hash_password("AdminPass1!"),
                       is_active |-> TRUE, roles |-> <<"admin">>,
                       last_login_at |-> NoTime]
                 ELSE [email |-> "user@x", username |-> "regularuser",
                       password_hash |-> hash_password("UserPass1!"),
                       is_active |-> TRUE, roles |-> <<"user">>,
                       last_login_at |-> NoTime]]
    /\ roles = InitialRoles
    /\ ledger = {}
    /\ now = 0
    /\ issued = <<>>
    /\ req = [w \in Workers |-> IdleReq]
    /\ fresh = NoFresh
    /\ rotCount = [n \in SessionIds |-> 0]
    /\ loggedOut = {}
    /\ pwChanged = {}
    /\ pwLast = [u \in UserIds |-> <<>>]
    /\ resp = [op |-> "none", status |-> 0, ran |-> FALSE]
    /\ txn = [w \in Workers |-> IdleTxn]

Init == InitWith(MaxTokens)

\* commit what the handler returned; mint and store a pair when it asks for one
Apply(r, origin) ==
    /\ cap' = cap
    /\ users' = r.users
    /\ IF r.mint = NoUser
       THEN /\ ledger' = r.ledger
            /\ issued' = issued
            /\ fresh' = NoFresh
       ELSE /\ Room
            /\ LET n == Len(issued) + 1
                   pair == generate_tokens(r.users, roles, r.mint, n, now)
               IN /\ issued' = Append(issued, pair)
                  /\ ledger' = store_refresh_token(r.ledger, r.mint, pair.refresh.jti, n, now)
                  /\ fresh' = [n |-> n, origin |-> origin]

Tick ==
    /\ now < MaxTime
    /\ now' = now + 1
    /\ fresh' = NoFresh
    /\ UNCHANGED <<users, roles, ledger, issued, req, rotCount, loggedOut, pwChanged, pwLast, resp, cap, txn>>

Login(email, password) ==
    /\ Apply(login(email, password), "login")
    /\ UNCHANGED <<roles, now, req, rotCount, loggedOut, pwChanged, pwLast, resp, txn>>

\* /auth/refresh, first step: validate_refresh_token and the 400/401 exits
RefreshValidate(w, tok) ==
    /\ req[w].pc = "idle"
    /\ LET r == refresh_token(tok) IN
       /\ ledger' = r.ledger
       /\ IF r.status # 200
          THEN UNCHANGED req
          ELSE /\ Room
               /\ req' = [req EXCEPT ![w] = [pc |-> "validated", user |-> r.user, jti |-> r.jti]]
    /\ fresh' = NoFresh
    /\ UNCHANGED <<users, roles, now, issued, rotCount, loggedOut, pwChanged, pwLast, resp, cap, txn>>

\* second step: revoke_refresh_token of the presented jti (its own commit)
RefreshRevoke(w) ==
    /\ req[w].pc = "validated"
    /\ ledger' = revoke_refresh_token(ledger, req[w].jti)
    /\ req' = [req EXCEPT ![w].pc = "revoked"]
    /\ fresh' = NoFresh
    /\ UNCHANGED <<users, roles, now, issued, rotCount, loggedOut, pwChanged, pwLast, resp, cap, txn>>

\* third step: generate_tokens, store_refresh_token, update_last_login, respond 200
RefreshStore(w) ==
    /\ req[w].pc = "revoked"
    /\ LET n == Len(issued) + 1
           pair == generate_tokens(users, roles, req[w].user, n, now)
       IN /\ issued' = Append(issued, pair)
          /\ ledger' = store_refresh_token(ledger, req[w].user, pair.refresh.jti, n, now)
          /\ fresh' = [n |-> n, origin |-> "refresh"]
    /\ rotCount' = [rotCount EXCEPT ![PairIndex(req[w].jti)] = @ + 1]
    /\ req' = [req EXCEPT ![w] = IdleReq]
    /\ users' = update_last_login(users, req[w].user)
    /\ UNCHANGED <<roles, now, loggedOut, pwChanged, pwLast, resp, cap, txn>>

ChangePassword(hdr, current_password, new_password) ==
    LET r == change_password(hdr, current_password, new_password) IN
    /\ Apply(r, "change_password")
    /\ pwChanged' = IF r.status = 200
                    THEN pwChanged \cup {t.jti : t \in {x \in RefreshTokens : x.sub = r.mint}}
                    ELSE pwChanged
    /\ pwLast' = IF r.status = 200
                 THEN [pwLast EXCEPT ![r.mint] = <<current_password, new_password>>]
                 ELSE pwLast
    /\ UNCHANGED <<roles, now, req, rotCount, loggedOut, resp, txn>>

Logout(hdr, refresh_tok) ==
    LET r == logout(hdr, refresh_tok) IN
    /\ Apply(r, "logout")
    /\ loggedOut' = IF authenticate(hdr).status = 0 /\ refresh_tok # NoTok
                       /\ JwtDecodeOk(refresh_tok, FALSE)
                       /\ \E rec \in ledger : rec.token = refresh_tok.jti
                    THEN loggedOut \cup {refresh_tok.jti}
                    ELSE loggedOut
    /\ UNCHANGED <<roles, now, req, rotCount, pwChanged, pwLast, resp, txn>>

RevokeSession(hdr, session_id) ==
    /\ Apply(revoke_session(hdr, session_id), "revoke_session")
    /\ UNCHANGED <<roles, now, req, rotCount, loggedOut, pwChanged, pwLast, resp, txn>>

RevokeAllSessions(hdr, current_refresh_token) ==
    /\ Apply(revoke_all_sessions(hdr, current_refresh_token), "revoke_all_sessions")
    /\ UNCHANGED <<roles, now, req, rotCount, loggedOut, pwChanged, pwLast, resp, txn>>

ActivateUser(hdr, user_id) ==
    /\ Apply(activate_user(hdr, user_id), "activate_user")
    /\ UNCHANGED <<roles, now, req, rotCount, loggedOut, pwChanged, pwLast, resp, txn>>

DeactivateUser(hdr, user_id) ==
    /\ Apply(deactivate_user(hdr, user_id), "deactivate_user")
    /\ UNCHANGED <<roles, now, req, rotCount, loggedOut, pwChanged, pwLast, resp, txn>>

CleanExpiredTokens ==
    /\ ledger' = clean_expired_tokens(ledger)
    /\ fresh' = NoFresh
    /\ UNCHANGED <<users, roles, now, issued, req, rotCount, loggedOut, pwChanged, pwLast, resp, cap, txn>>

\* AuthService.clean_expired_tokens, first step: the query for expired rows
SweepQuery(w) ==
    /\ txn[w].op = "idle"
    /\ LET expired == expired_tokens(ledger) IN
       txn' = [txn EXCEPT ![w] = [op |-> "sweep", rows |-> expired,
                                  count |-> Cardinality(expired)]]
    /\ fresh' = NoFresh
    /\ UNCHANGED <<users, roles, ledger, now, issued, req, rotCount, loggedOut, pwChanged,
                   pwLast, resp, cap>>

\* second step: the deletes and the commit; the call returns count
SweepCommit(w) ==
    /\ txn[w].op = "sweep"
    /\ ledger' = delete_tokens(ledger, txn[w].rows)
    /\ txn' = [txn EXCEPT ![w] = IdleTxn]
    /\ resp' = [op |-> "clean_expired_tokens", status |-> txn[w].count, ran |-> TRUE]
    /\ fresh' = NoFresh
    /\ UNCHANGED <<users, roles, now, issued, req, rotCount, loggedOut, pwChanged, pwLast, cap>>

Probe(op, r) ==
    /\ resp' = [op |-> op, status |-> r.status, ran |-> r.ran]
    /\ fresh' = NoFresh
    /\ UNCHANGED <<users, roles, ledger, now, issued, req, rotCount, loggedOut, pwChanged, pwLast, cap, txn>>

ProtectedTest(hdr) == Probe("protected_test", protected_test(hdr))

RoleRoute(hdr, required, require_all) ==
    Probe("role_route", role_route(hdr, required, require_all))

PermissionRoute(hdr, required, require_all) ==
    Probe("permission_route", permission_route(hdr, required, require_all))

GetAllRoles(hdr) == Probe("get_all_roles", get_all_roles(hdr))

ApplyRoles(r) ==
    /\ roles' = r.roles
    /\ users' = r.users
    /\ fresh' = NoFresh
    /\ UNCHANGED <<ledger, now, issued, req, rotCount, loggedOut, pwChanged, pwLast, resp, cap, txn>>

CreateRole(hdr, name, description, permissions) ==
    ApplyRoles(create_role(hdr, name, description, permissions))

UpdateRole(hdr, role_name, description, permissions) ==
    ApplyRoles(update_role(hdr, role_name, description, permissions))

UpdateUserRoles(hdr, user_id, role_names) ==
    ApplyRoles(update_user_roles(hdr, user_id, role_names))

DeleteRole(hdr, role_name) == ApplyRoles(delete_role(hdr, role_name))

\* the token lifecycle under concurrent refresh requests
NextRefresh ==
    \/ Tick
    \/ \E e \in Emails \cup {""}, p \in Passwords : Login(e, p)
    \/ \E w \in Workers, t \in Presentable : RefreshValidate(w, t)
    \/ \E w \in Workers : RefreshRevoke(w)
    \/ \E w \in Workers : RefreshStore(w)

SpecRefresh == Init /\ [][NextRefresh]_vars

\* every operation that revokes or deletes ledger records, one user's sessions
NextLedger ==
    \/ Tick
    \/ \E p \in Passwords : Login("user@x", p)
    \/ \E t \in Presentable : RefreshValidate("w1", t)
    \/ RefreshRevoke("w1")
    \/ RefreshStore("w1")
    \/ \E h \in CallerHeaders, c \in PasswordChanges : ChangePassword(h, c[1], c[2])
    \/ \E h \in CallerHeaders, t \in Presentable : Logout(h, t)
    \/ \E h \in CallerHeaders, sid \in SessionIds : RevokeSession(h, sid)
    \/ \E h \in CallerHeaders, t \in BodyTokens : RevokeAllSessions(h, t)
    \/ CleanExpiredTokens

SpecLedger == InitWith(MaxSessions) /\ [][NextLedger]_vars

\* accounts being deactivated and re-activated while sessions exist
NextAccount ==
    \/ Tick
    \/ \E e \in Emails \cup {""}, p \in Passwords : Login(e, p)
    \/ \E t \in Presentable : RefreshValidate("w1", t)
    \/ RefreshRevoke("w1")
    \/ RefreshStore("w1")
    \/ \E h \in CallerHeaders, c \in PasswordChanges : ChangePassword(h, c[1], c[2])
    \/ \E h \in CallerHeaders, u \in UserIdInputs : ActivateUser(h, u)
    \/ \E h \in CallerHeaders, u \in UserIdInputs : DeactivateUser(h, u)

SpecAccount == Init /\ [][NextAccount]_vars

\* two users' sessions side by side
NextSessions ==
    \/ Tick
    \/ \E e \in Emails, p \in Passwords : Login(e, p)
    \/ \E h \in CallerHeaders, sid \in SessionIds : RevokeSession(h, sid)
    \/ \E h \in CallerHeaders, t \in Presentable : RevokeAllSessions(h, t)

SpecSessions == Init /\ [][NextSessions]_vars

\* the middleware in front of protected routes
NextMiddleware ==
    \/ Tick
    \/ \E e \in Emails, p \in Passwords : Login(e, p)
    \/ \E h \in Headers : ProtectedTest(h)
    \/ \E h \in Headers, rs \in RoleSets, all \in BOOLEAN : RoleRoute(h, rs, all)
    \/ \E h \in Headers, ps \in PermissionSets, all \in BOOLEAN : PermissionRoute(h, ps, all)
    \/ \E h \in Headers : GetAllRoles(h)

SpecMiddleware == InitWith(MaxSessions) /\ [][NextMiddleware]_vars

GetActiveSessions(hdr) ==
    LET r == get_active_sessions(hdr) IN
    Probe("get_active_sessions", [status |-> r.status, ran |-> r.status # 401])

\* the session listing next to everything that ends a session
NextListing ==
    \/ Tick
    \/ \E e \in {"admin@x", "user@x"}, p \in {"weak", "AdminPass1!", "UserPass1!"} : Login(e, p)
    \/ \E t \in RefreshTokens : RefreshValidate("w1", t)
    \/ RefreshRevoke("w1")
    \/ RefreshStore("w1")
    \/ \E h \in CallerHeaders, t \in RefreshTokens : Logout(h, t)
    \/ \E h \in CallerHeaders, sid \in SessionIds : RevokeSession(h, sid)
    \/ \E h \in CallerHeaders : GetActiveSessions(h)

SpecListing == InitWith(MaxSessions) /\ [][NextListing]_vars

\* role management by admins and everyone else
NextRoles ==
    \/ \E e \in Emails, p \in Passwords : Login(e, p)
    \/ \E h \in CallerHeaders, n \in RoleNameInputs, d \in DescriptionInputs,
          ps \in PermissionLists : CreateRole(h, n, d, ps)
    \/ \E h \in CallerHeaders, n \in RoleNameInputs,
          d \in {None} \cup {[given |-> TRUE, val |-> x] : x \in DescriptionInputs},
          ps \in {None} \cup {Some(x) : x \in PermissionLists} : UpdateRole(h, n, d, ps)
    \/ \E h \in CallerHeaders, n \in RoleNameInputs : DeleteRole(h, n)

SpecRoles == InitWith(MaxSessions) /\ [][NextRoles]_vars

\* role assignment while tokens issued earlier are still in use
NextAssign ==
    \/ \E e \in {"admin@x", "user@x"}, p \in {"weak", "AdminPass1!", "UserPass1!"} : Login(e, p)
    \/ \E h \in AccessHeaders, u \in UserIdInputs, rs \in RoleLists : UpdateUserRoles(h, u, rs)
    \/ \E h \in AccessHeaders, ps \in {<<>>, << <<"r">>, <<"u">> >>} :
          CreateRole(h, "editor", "d1", ps)
    \/ \E h \in AccessHeaders : UpdateRole(h, "user", None, Some(<< <<"m">>, <<"r">> >>))
    \/ \E h \in AccessHeaders : GetAllRoles(h)

SpecAssign == InitWith(MaxSessions) /\ [][NextAssign]_vars

\* storage changing under tokens that are in use
NextStorage ==
    \/ Tick
    \/ \E e \in {"admin@x", "user@x"}, p \in {"weak", "AdminPass1!", "UserPass1!"} : Login(e, p)
    \/ \E h \in AccessHeaders : DeactivateUser(h, "u2")
    \/ \E h \in AccessHeaders : RevokeAllSessions(h, NoTok)
    \/ \E h \in AccessHeaders, rs \in {<<"user">>, <<"user", "admin">>} :
          UpdateUserRoles(h, "u2", rs)
    \/ \E h \in AccessHeaders : UpdateRole(h, "user", None, Some(<< <<"m">>, <<"r">> >>))

SpecStorage == InitWith(MaxSessions) /\ [][NextStorage]_vars

----------------------------------------------------------------------------
(* Properties *)

RowsOf(jti) == {r \in ledger : r.token = jti}

\* a correctly signed, unexpired token
Current(tok) == tok.sig /\ tok.exp > now

\* the same rows, whatever their revoked flags
Keys(L) == {[id |-> r.id, token |-> r.token, user_id |-> r.user_id,
             expires_at |-> r.expires_at] : r \in L}

\* C1: of the refresh requests that present one refresh token, at most one
\* is answered 200 with a new pair, however the requests interleave
C1_SingleUse == \A n \in SessionIds : rotCount[n] <= 1

\* C2: once a refresh presenting R has been answered 200, a refresh presenting
\* R is answered 401; the refresh token R' of the pair just returned is
\* accepted (200) while its owner is active
C2_Rotation ==
    /\ \A t \in RefreshTokens :
          rotCount[PairIndex(t.jti)] > 0 => refresh_token(t).status = 401
    /\ (fresh.origin = "refresh" /\ users[issued[fresh.n].refresh.sub].is_active)
          => refresh_token(issued[fresh.n].refresh).status = 200

C2_Witness ==
    /\ fresh.origin = "refresh"
    /\ \E t \in RefreshTokens : rotCount[PairIndex(t.jti)] > 0 /\ Current(t)

\* C3: a refresh presenting a token whose ledger row is revoked, or past its
\* expiry, or missing, is answered 401, carries no user on to the minting
\* steps and adds no row to the ledger
C3_RevokedNeverAccepted ==
    \A t \in Presentable \ {NoTok} :
       (RowsOf(t.jti) = {} \/ \E r \in RowsOf(t.jti) : r.is_revoked \/ r.expires_at < now)
          => LET res == refresh_token(t) IN
             /\ res.status = 401
             /\ res.user = NoUser
             /\ Keys(res.ledger) = Keys(ledger)

C3_Witness ==
    \E t \in RefreshTokens : Current(t) /\ \E r \in RowsOf(t.jti) : r.is_revoked

\* C4: while a user is inactive, login with the user's email and password is
\* answered 401, and so is a refresh presenting a signed, unexpired, unrevoked
\* refresh token of that user, which mints nothing
C4_InactiveBlocked ==
    \A u \in DOMAIN users : ~users[u].is_active =>
       /\ \A p \in Passwords \ {""} :
             users[u].password_hash = hash_password(p)
                => LET res == login(users[u].email, p) IN
                   res.status = 401 /\ res.mint = NoUser
       /\ \A t \in RefreshTokens :
             (t.sub = u /\ Current(t) /\ \E r \in RowsOf(t.jti) : ~r.is_revoked)
                => LET res == refresh_token(t) IN
                   res.status = 401 /\ res.user = NoUser /\ res.ledger = ledger

C4_Witness ==
    \E u \in DOMAIN users, t \in RefreshTokens :
       /\ ~users[u].is_active
       /\ t.sub = u /\ Current(t)
       /\ \E r \in RowsOf(t.jti) : ~r.is_revoked /\ ~(r.expires_at < now)

\* C5: after a successful change_password every refresh token of the user
\* issued before it is answered 401 at refresh, and the refresh token the call
\* returned is accepted (200)
C5_ChangePassword ==
    /\ \A t \in RefreshTokens : t.jti \in pwChanged => refresh_token(t).status = 401
    /\ fresh.origin = "change_password"
          => refresh_token(issued[fresh.n].refresh).status = 200

\* C6: login with both fields present is answered 200 with a pair exactly when
\* the email is that of a registered, active user whose password matches, and
\* in every other case with the one response 401 "Invalid credentials"
C6_Login ==
    \A e \in Emails, p \in Passwords \ {""} :
       LET res == login(e, p)
           good == \E u \in DOMAIN users :
                      /\ users[u].email = e
                      /\ users[u].is_active
                      /\ users[u].password_hash = hash_password(p)
       IN IF good
          THEN res.status = 200 /\ res.mint # NoUser /\ users[res.mint].email = e
          ELSE res = [status |-> 401, msg |-> "Invalid credentials", users |-> users,
                      ledger |-> ledger, mint |-> NoUser]

C6_Witness ==
    /\ \E u \in DOMAIN users : ~users[u].is_active
    /\ \E u \in DOMAIN users : users[u].is_active
    /\ \E e \in Emails : \A u \in DOMAIN users : users[u].email # e

\* C7: on a protected route a missing or malformed Authorization header is
\* answered 401, a badly signed or expired token 401, a valid token whose
\* roles or permissions fall short 403, and the handler runs only when both
\* checks pass
WellFormed(h) ==
    h.present /\ Len(h.parts) = 2 /\ h.parts[1].w \in {"Bearer", "bearer"}

Satisfies(have, required, require_all) ==
    IF require_all THEN required \subseteq Range(have)
    ELSE required \cap Range(have) # {}

C7_Guard(h, r, sufficient) ==
    /\ ~WellFormed(h) => r.status = 401
    /\ (WellFormed(h) /\ ~Current(h.parts[2].t)) => r.status = 401
    /\ (WellFormed(h) /\ Current(h.parts[2].t) /\ ~sufficient) => r.status = 403
    /\ r.ran <=> (WellFormed(h) /\ Current(h.parts[2].t) /\ sufficient)

C7_Middleware ==
    \A h \in Headers :
       /\ C7_Guard(h, protected_test(h), TRUE)
       /\ \A rs \in RoleSets, all \in BOOLEAN :
             C7_Guard(h, role_route(h, rs, all),
                      WellFormed(h) /\ Satisfies(h.parts[2].t.roles, rs, all))
       /\ \A ps \in PermissionSets, all \in BOOLEAN :
             C7_Guard(h, permission_route(h, ps, all),
                      WellFormed(h) /\ Satisfies(h.parts[2].t.permissions, ps, all))

\* C8: the roles admin and user exist, the admin role's permission list is the
\* initial one, every delete of admin or user fails and every update of admin
\* that carries a permissions list fails, both leaving the tables as they are
C8_ReservedRoles ==
    /\ {"admin", "user"} \subseteq DOMAIN roles
    /\ get_permissions(roles["admin"]) = get_permissions(InitialRoles["admin"])
    /\ \A h \in CallerHeaders :
          /\ \A n \in {"admin", "user"} :
                LET res == delete_role(h, n) IN
                res.status >= 400 /\ res.roles = roles /\ res.users = users
          /\ \A d \in {None} \cup {Some(x) : x \in DescriptionInputs},
                ps \in PermissionLists :
                LET res == update_role(h, "admin", d, Some(ps)) IN
                res.status >= 400 /\ res.roles = roles /\ res.users = users

C8_Witness ==
    /\ \E a \in AccessTokens : before_admin_request(Bearer(a)).status = 0
    /\ "editor" \in DOMAIN roles
    /\ roles["user"] # InitialRoles["user"]
    /\ roles["admin"].description # InitialRoles["admin"].description

\* C9: DELETE /users/me/sessions/{id} by A with the id of a row of another
\* user is answered with an error and changes no row; with the id of a row of
\* A it sets that row's is_revoked and changes nothing else
C9_OwnSessionsOnly ==
    \A a \in SignedTokens, r \in ledger :
       authenticate(Bearer(a)).status = 0 =>
          LET res == revoke_session(Bearer(a), r.id) IN
          IF r.user_id # a.sub
          THEN res.status >= 400 /\ res.ledger = ledger
          ELSE /\ res.status = 200
               /\ res.ledger = (ledger \ {r}) \cup {[r EXCEPT !.is_revoked = TRUE]}
               /\ res.users = users /\ res.mint = NoUser

C9_Witness ==
    \E a \in AccessTokens, r1 \in ledger, r2 \in ledger :
       /\ authenticate(Bearer(a)).status = 0
       /\ r1.user_id # a.sub /\ ~r1.is_revoked
       /\ r2.user_id = a.sub /\ r2.is_revoked

\* C10: once a logout has revoked refresh token R, a refresh presenting R is
\* answered 401, while every access token is still accepted on a protected
\* route until its own expiry
C10_Logout ==
    /\ \A t \in RefreshTokens : t.jti \in loggedOut => refresh_token(t).status = 401
    /\ loggedOut # {} =>
          \A a \in AccessTokens : a.exp > now => protected_test(Bearer(a)).status = 200

C10_Witness ==
    \E t \in RefreshTokens, a \in AccessTokens :
       /\ t.jti \in loggedOut /\ Current(t)
       /\ a.sub = t.sub /\ a.exp > now

\* C11: an authenticated logout is answered 200 whatever the refresh_token
\* field holds (nothing, a forgery, an expired token, a token with no ledger
\* row, a token whose row is already revoked); revoking a jti twice gives the
\* ledger that revoking it once gives, and a logout repeated right after
\* itself would leave the ledger as the first one left it
C11_LogoutIdempotent ==
    /\ [](\A h \in CallerHeaders, t \in Presentable :
            authenticate(h).status = 0 =>
               /\ logout(h, t).status = 200
               /\ revoke_refresh_token(revoke_refresh_token(ledger, t.jti), t.jti)
                     = revoke_refresh_token(ledger, t.jti))
    /\ [][\A h \in CallerHeaders, t \in Presentable :
            Logout(h, t) => (logout(h, t).ledger)' = ledger']_vars

C11_Witness ==
    \E t1 \in RefreshTokens, t2 \in RefreshTokens :
       /\ t1.exp <= now /\ RowsOf(t1.jti) = {}
       /\ t2.jti \in loggedOut /\ \E r \in RowsOf(t2.jti) : r.is_revoked
       /\ \E a \in AccessTokens : authenticate(Bearer(a)).status = 0

\* C12: for an authenticated caller GET /users/me/sessions lists exactly the
\* caller's rows that are unrevoked and expire in the future; a row consumed by
\* a rotation or revoked by a logout is not listed, a row of another user is
\* not listed, and the row a refresh has just stored is listed for its owner
C12_ActiveSessions ==
    \A a \in SignedTokens :
       authenticate(Bearer(a)).status = 0 =>
          LET res == get_active_sessions(Bearer(a))
              listed == {r \in ledger : r.id \in res.sessions}
          IN /\ res.status = 200
             /\ listed = {r \in ledger : r.user_id = a.sub /\ ~r.is_revoked
                                          /\ r.expires_at > now}
             /\ \A r \in listed :
                   /\ r.user_id = a.sub
                   /\ r.token \notin loggedOut
                   /\ rotCount[PairIndex(r.token)] = 0
             /\ (fresh.origin = "refresh" /\ issued[fresh.n].refresh.sub = a.sub)
                   => \E r \in listed : r.token = issued[fresh.n].refresh.jti

C12_Witness ==
    /\ resp.op = "get_active_sessions" /\ resp.status = 200
    /\ \E a \in AccessTokens :
          /\ authenticate(Bearer(a)).status = 0
          /\ get_active_sessions(Bearer(a)).sessions # {}
          /\ \E r \in ledger : /\ r.user_id = a.sub
                               /\ rotCount[PairIndex(r.token)] > 0
                               /\ r.expires_at > now

\* C13: revoke_all_sessions by U with current refresh token C is answered 200
\* and keeps the rows of the ledger, setting is_revoked on every row of U whose
\* jti is not C's and changing no other row (C's own row, rows of other
\* users); when C is absent or cannot be decoded every row of U is revoked
C13_RevokeAllFrame ==
    \A a \in SignedTokens, c \in Presentable :
       authenticate(Bearer(a)).status = 0 =>
          LET res == revoke_all_sessions(Bearer(a), c)
              decoded == c # NoTok /\ c.sig
              after(r) == CHOOSE x \in res.ledger : x.id = r.id
          IN /\ res.status = 200
             /\ res.users = users /\ res.mint = NoUser
             /\ Keys(res.ledger) = Keys(ledger)
             /\ Cardinality(res.ledger) = Cardinality(ledger)
             /\ \A r \in ledger :
                   IF r.user_id = a.sub /\ (~decoded \/ r.token # c.jti)
                   THEN after(r) = [r EXCEPT !.is_revoked = TRUE]
                   ELSE after(r) = r

C13_Witness ==
    \E a \in AccessTokens, r1 \in ledger, rc \in ledger, ro \in ledger :
       /\ authenticate(Bearer(a)).status = 0
       /\ r1.user_id = a.sub /\ r1.is_revoked
       /\ rc.user_id = a.sub /\ ~rc.is_revoked
       /\ ro.user_id # a.sub /\ ~ro.is_revoked

\* C14: for every user, each list get_user_permissions can return holds every
\* permission of the assigned roles exactly once and nothing else;
\* user_has_permission and user_has_role are membership in that set and in the
\* assigned role names; the permissions of a newly minted access token have
\* the same elements
PermissionUniverse == {<<"m">>, <<"r">>, <<"u">>, <<"r", ",", "u">>, <<"x">>}

C14_EffectivePermissions ==
    \A u \in DOMAIN users :
       LET assigned == Range(users[u].roles)
           expected == UNION {Range(get_permissions(roles[n])) : n \in assigned}
       IN /\ get_user_permissions(roles, users[u]) # {}
          /\ \A l \in get_user_permissions(roles, users[u]) :
                Range(l) = expected /\ Len(l) = Cardinality(expected)
          /\ \A p \in PermissionUniverse :
                user_has_permission(roles, users[u], p) <=> p \in expected
          /\ \A n \in RoleNameInputs : user_has_role(users[u], n) <=> n \in assigned
          /\ Range(generate_tokens(users, roles, u, 1, now).access.permissions) = expected

C14_Witness ==
    \E u \in DOMAIN users :
       /\ Len(users[u].roles) = 2
       /\ Len(PermissionsOf(roles, users[u])) > Cardinality(Range(PermissionsOf(roles, users[u])))
       /\ \E v \in DOMAIN users : PermissionsOf(roles, users[v]) = <<>>

LatestAccess(u) ==
    LET mine == {i \in 1..Len(issued) : issued[i].access.sub = u}
    IN issued[CHOOSE i \in mine : \A j \in mine : j <= i].access

WrongCurrent(h, c) ==
    /\ authenticate(h).status = 0
    /\ c[1] # "" /\ c[2] # ""
    /\ ~verify_password(c[1], users[authenticate(h).g.user_id].password_hash)

\* C18 as stated: after a successful change_password from P to Q (Q # P)
\* login with P is answered 401 and login with Q is answered 200, at any later
\* time; a change_password whose current_password does not match is answered
\* 401 and leaves the stored hash as it is
C18_PasswordChangeLogin ==
    /\ \A u \in UserIds :
          (pwLast[u] # <<>> /\ pwLast[u][1] # pwLast[u][2]) =>
             /\ login(users[u].email, pwLast[u][1]).status = 401
             /\ login(users[u].email, pwLast[u][2]).status = 200
    /\ \A h \in CallerHeaders, c \in PasswordChanges :
          WrongCurrent(h, c) =>
             LET res == change_password(h, c[1], c[2]) IN
             res.status = 401 /\ res.users = users

\* C18 amended: until the password is changed again, the stored hash is that
\* of Q, login with P (P # Q) is answered 401 and login with Q is answered 200
\* while the user is active and 401 while the user is deactivated; a
\* change_password whose current_password does not match changes nothing and
\* is answered 401, or 400 when the new password fails validation
C18_PasswordChangeLoginWhileActive ==
    /\ \A u \in UserIds :
          pwLast[u] # <<>> =>
             /\ users[u].password_hash = hash_password(pwLast[u][2])
             /\ pwLast[u][1] # pwLast[u][2]
                   => login(users[u].email, pwLast[u][1]).status = 401
             /\ login(users[u].email, pwLast[u][2]).status
                   = IF users[u].is_active THEN 200 ELSE 401
    /\ \A h \in CallerHeaders, c \in PasswordChanges :
          WrongCurrent(h, c) =>
             LET res == change_password(h, c[1], c[2]) IN
             /\ res.status = IF ValidatePassword(c[2]) THEN 401 ELSE 400
             /\ res.users = users /\ res.ledger = ledger /\ res.mint = NoUser

C18_Witness ==
    \E u \in UserIds :
       /\ pwLast[u] # <<>> /\ pwLast[u][1] # pwLast[u][2]
       /\ users[u].is_active
       /\ \E h \in CallerHeaders, c \in PasswordChanges :
             WrongCurrent(h, c) /\ ValidatePassword(c[2])

\* C19: rotation is atomic: in every state, a row that a refresh has revoked
\* has its replacement stored (here no other operation revokes rows, so every
\* revoked row is one a refresh consumed)
C19_AtomicRotation ==
    \A r \in ledger : r.is_revoked => rotCount[PairIndex(r.token)] > 0

\* C20: across every step, a row that stays in the ledger is either unchanged
\* or has only its is_revoked gone from false to true; is_revoked never goes
\* back to false and jti, owner and expiry never change
C20_WriteOnce ==
    [][\A r \in ledger : \A x \in ledger' :
          x.id = r.id =>
             \/ x = r
             \/ ~r.is_revoked /\ x = [r EXCEPT !.is_revoked = TRUE]]_vars

C20_Witness ==
    \E r1 \in ledger, r2 \in ledger :
       /\ r1.is_revoked /\ r1.token \in loggedOut
       /\ ~r2.is_revoked /\ r2.expires_at > r1.expires_at

\* C21: a deactivate_user request that is answered 200 leaves every ledger
\* record of the deactivated user with is_revoked set, so that a refresh token
\* issued to the user before the deactivation is refused also after the user
\* is re-activated
C21_DeactivationRevokes ==
    \A h \in CallerHeaders, u \in UserIds :
       LET res == deactivate_user(h, u) IN
       res.status = 200 => \A r \in UserRefreshTokens(res.ledger, u) : r.is_revoked

\* C22: a refresh presenting a correctly signed refresh token whose ledger
\* record is unrevoked and past its expiry is answered 401 and leaves that
\* record with is_revoked set
C22_RevokeOnExpiryDiscovery ==
    \A t \in RefreshTokens :
       (\E r \in RowsOf(t.jti) : ~r.is_revoked /\ r.expires_at < now)
          => LET res == refresh_token(t) IN
             /\ res.status = 401
             /\ \A r \in res.ledger : r.token = t.jti => r.is_revoked

\* the expiry sweep run by two workers next to login, refresh and logout
NextSweep ==
    \/ Tick
    \/ \E p \in {"weak", "UserPass1!"} : Login("user@x", p)
    \/ \E t \in RefreshTokens : RefreshValidate("w1", t)
    \/ RefreshRevoke("w1")
    \/ RefreshStore("w1")
    \/ \E h \in AccessHeaders, t \in RefreshTokens : Logout(h, t)
    \/ \E w \in Workers : SweepQuery(w)
    \/ \E w \in Workers : SweepCommit(w)

SpecSweep == InitWith(MaxSessions) /\ [][NextSweep]_vars

Ids(L) == {r.id : r \in L}

\* C23: a sweep that nothing interleaves with deletes exactly the records
\* past their expiry and returns their number; a sweep never deletes a record
\* that is not past its expiry, whatever its revoked flag and whatever runs
\* between its query and its commit; no step of another operation deletes a
\* record; a sweep that has run its query can always commit
C23_Sweep ==
    /\ [](\A w \in Workers : txn[w].op = "sweep" => ENABLED SweepCommit(w))
    /\ [][/\ \A r \in ledger : r.id \notin Ids(ledger') => r.expires_at < now
          /\ Ids(ledger) \subseteq Ids(ledger')
                \/ \E w \in Workers : txn[w].op = "sweep" /\ txn'[w].op = "idle"
          /\ \A w \in Workers :
                (txn[w].op = "sweep" /\ txn'[w].op = "idle")
                   => /\ Ids(ledger') \cap Ids(txn[w].rows) = {}
                      /\ \A r \in ledger : r.id \notin Ids(txn[w].rows) => r \in ledger'
                      /\ txn[w].rows = expired_tokens(ledger)
                            => /\ ledger' = {r \in ledger : r.expires_at >= now}
                               /\ resp'.status = Cardinality(ledger) - Cardinality(ledger')
         ]_vars

C23_Witness ==
    \E w1, w2 \in Workers :
       /\ resp.op = "clean_expired_tokens" /\ resp.status > 0
       /\ txn[w1].op = "idle"
       /\ txn[w2].op = "sweep" /\ txn[w2].rows # {}
       /\ Ids(txn[w2].rows) \cap Ids(ledger) = {}
       /\ \E r \in ledger : r.is_revoked /\ ~(r.expires_at < now)

----------------------------------------------------------------------------
(* Registration and profile updates *)

\* ids the users table hands to new rows
NewUserIds == {"u3", "u4"}

EmailInputs == {"", "not-an-email", "admin@x", "new@x"}

UsernameInputs == {"", "ab", "admin", "newuser"}

\* Validator.validate_email
validate_email(email) == email \notin {"", "not-an-email"}

\* Validator.validate_username
validate_username(username) == username \notin {"", "ab"}

\* Validator.validate_registration_data
validate_registration_data(email, username, password) ==
    IF email = "" \/ username = "" \/ password = "" THEN FALSE
    ELSE validate_email(email) /\ validate_username(username) /\ ValidatePassword(password)

\* the unique constraints of users.email and users.username
UniqueUsers(U) ==
    \A a, b \in DOMAIN U :
       a # b => U[a].email # U[b].email /\ U[a].username # U[b].username

\* a commit of the users table: refused as a whole when a constraint fails
commit_users(U, changed) ==
    IF UniqueUsers(changed) THEN [ok |-> TRUE, users |-> changed]
    ELSE [ok |-> FALSE, users |-> U]

\* variant: the row is inserted without the username constraint
create_user_unconstrained(U, id, email, username, password) ==
    LET row == [email |-> email, username |-> username,
                password_hash |-> hash_password(password),
                is_active |-> TRUE, roles |-> <<>>, last_login_at |-> NoTime]
        changed == [u \in DOMAIN U \cup {id} |-> IF u = id THEN row ELSE U[u]]
    IN IF \A u \in DOMAIN U : U[u].email # email
       THEN [ok |-> TRUE, users |-> changed]
       ELSE [ok |-> FALSE, users |-> U]

\* AuthService.create_user
create_user(U, id, email, username, password) ==
    LET row == [email |-> email, username |-> username,
                password_hash |-> hash_password(password),
                is_active |-> TRUE, roles |-> <<>>, last_login_at |-> NoTime]
    IN commit_users(U, [u \in DOMAIN U \cup {id} |-> IF u = id THEN row ELSE U[u]])

\* AuthService.assign_role_to_user
assign_role_to_user(U, R, user, role_name) ==
    IF role_name \notin DOMAIN R THEN U
    ELSE [U EXCEPT ![user].roles = Append(@, role_name)]

\* POST /auth/register up to the lookup by email: the status it leaves with,
\* or 0 when it goes on to create_user
register(email, username, password) ==
    IF ~validate_registration_data(email, username, password) THEN 400
    ELSE IF get_user_by_email(users, email) # NoUser THEN 400
    ELSE 0

\* PUT /users/me with a username field
update_current_user(hdr, username) ==
    LET a == authenticate(hdr) IN
    IF a.status # 0 THEN RoleFail(a.status, a.msg)
    ELSE IF ~validate_username(username) THEN RoleFail(400, "Username is invalid")
    ELSE LET user == get_user_by_id(users, a.g.user_id) IN
         IF user = NoUser THEN RoleFail(404, "User not found")
         ELSE LET c == commit_users(users, [users EXCEPT ![user].username = username]) IN
              IF ~c.ok THEN RoleFail(500, "Internal server error")
              ELSE RoleResult(200, "User updated successfully", roles, c.users)

\* /auth/register, first step: validation and the lookup by email
RegisterCheck(w, email, username, password) ==
    /\ txn[w].op = "idle"
    /\ LET status == register(email, username, password) IN
       IF status # 0
       THEN /\ resp' = [op |-> "register", status |-> status, ran |-> FALSE]
            /\ UNCHANGED txn
       ELSE /\ \E id \in NewUserIds : id \notin DOMAIN users
            /\ txn' = [txn EXCEPT ![w] = [op |-> "register", pc |-> "checked",
                                          email |-> email, username |-> username,
                                          password |-> password, user |-> NoUser]]
            /\ UNCHANGED resp
    /\ fresh' = NoFresh
    /\ UNCHANGED <<users, roles, ledger, now, issued, req, rotCount, loggedOut, pwChanged,
                   pwLast, cap>>

\* second step: create_user and its commit
RegisterCreate(w) ==
    /\ txn[w].op = "register" /\ txn[w].pc = "checked"
    /\ \E id \in NewUserIds : id \notin DOMAIN users
    /\ LET id == CHOOSE i \in NewUserIds :
                    i \notin DOMAIN users /\ (i = "u3" \/ "u3" \in DOMAIN users)
           c == create_user(users, id, txn[w].email, txn[w].username, txn[w].password)
       IN /\ users' = c.users
          /\ IF c.ok
             THEN /\ txn' = [txn EXCEPT ![w].pc = "created", ![w].user = id]
                  /\ UNCHANGED resp
             ELSE /\ txn' = [txn EXCEPT ![w] = IdleTxn]
                  /\ resp' = [op |-> "register", status |-> 500, ran |-> FALSE]
    /\ fresh' = NoFresh
    /\ UNCHANGED <<roles, ledger, now, issued, req, rotCount, loggedOut, pwChanged, pwLast, cap>>

\* third step: assign_role_to_user and the 201 response
RegisterAssign(w) ==
    /\ txn[w].op = "register" /\ txn[w].pc = "created"
    /\ users' = assign_role_to_user(users, roles, txn[w].user, "user")
    /\ txn' = [txn EXCEPT ![w] = IdleTxn]
    /\ resp' = [op |-> "register", status |-> 201, ran |-> TRUE]
    /\ fresh' = NoFresh
    /\ UNCHANGED <<roles, ledger, now, issued, req, rotCount, loggedOut, pwChanged, pwLast, cap>>

UpdateCurrentUser(hdr, username) ==
    LET r == update_current_user(hdr, username) IN
    /\ users' = r.users
    /\ resp' = [op |-> "update_current_user", status |-> r.status, ran |-> r.status = 200]
    /\ fresh' = NoFresh
    /\ UNCHANGED <<roles, ledger, now, issued, req, rotCount, loggedOut, pwChanged, pwLast,
                   cap, txn>>

\* registrations on two workers next to profile updates
NextRegister ==
    \/ \E e \in {"admin@x", "user@x"}, p \in {"weak", "AdminPass1!", "UserPass1!"} : Login(e, p)
    \/ \E w \in Workers, e \in EmailInputs, n \in UsernameInputs, p \in {"weak", "UserPass1!"} :
          RegisterCheck(w, e, n, p)
    \/ \E w \in Workers : RegisterCreate(w)
    \/ \E w \in Workers : RegisterAssign(w)
    \/ \E h \in AccessHeaders, n \in UsernameInputs \cup {"regularuser"} :
          UpdateCurrentUser(h, n)

SpecRegister == InitWith(MaxSessions) /\ [][NextRegister]_vars

\* C24: no two users share an email or a username, however register and
\* update_current_user requests interleave; a registration or a profile
\* update that would create a duplicate is answered with an error and leaves
\* the users table as it was
C24_UniqueUsers ==
    /\ UniqueUsers(users)
    /\ \A e \in EmailInputs, n \in UsernameInputs, p \in {"weak", "UserPass1!"} :
          (\E u \in DOMAIN users : users[u].email = e) => register(e, n, p) = 400
    /\ \A w \in Workers, id \in NewUserIds \ DOMAIN users :
          (txn[w].op = "register" /\ txn[w].pc = "checked")
             => LET c == create_user(users, id, txn[w].email, txn[w].username,
                                     txn[w].password)
                IN (\E u \in DOMAIN users : \/ users[u].email = txn[w].email
                                            \/ users[u].username = txn[w].username)
                      => ~c.ok /\ c.users = users
    /\ \A h \in AccessHeaders, n \in UsernameInputs \cup {"regularuser"} :
          LET a == authenticate(h)
              res == update_current_user(h, n)
          IN /\ (a.status = 0
                   /\ \E u \in DOMAIN users : u # a.g.user_id /\ users[u].username = n)
                   => res.status >= 400
             /\ res.status >= 400 => res.users = users

C24_Witness ==
    \E w \in Workers, u \in DOMAIN users :
       /\ u \notin UserIds
       /\ txn[w].op = "register" /\ txn[w].pc = "checked"
       /\ users[u].email = txn[w].email \/ users[u].username = txn[w].username

\* C25: in every state reached through admin requests at least one active
\* user holds the admin role
C25_LastAdmin ==
    \E u \in DOMAIN users : users[u].is_active /\ "admin" \in Range(users[u].roles)

\* C27: an update_user_roles request by an admin for an existing user whose
\* role names all exist is answered 200 and leaves the user with exactly the
\* requested set of roles; a request with an empty list or with a name that
\* does not exist is answered with an error, and every request answered with
\* an error leaves every user's roles as they were
C27_AllOrNothing ==
    \A h \in AccessHeaders, u \in UserIdInputs, rs \in RoleLists :
       LET a == before_admin_request(h)
           res == update_user_roles(h, u, rs)
           known == \A i \in 1..Len(rs) : rs[i] \in DOMAIN roles
       IN /\ (a.status = 0 /\ u \in DOMAIN users /\ rs # <<>> /\ known)
                => /\ res.status = 200
                   /\ Range(res.users[u].roles) = Range(rs)
          /\ (rs = <<>> \/ ~known) => res.status >= 400
          /\ res.status >= 400 => res.users = users

C27_Witness ==
    /\ \E h \in AccessHeaders : before_admin_request(h).status = 0
    /\ Range(users["u2"].roles) = {"user", "admin"}
    /\ "editor" \in DOMAIN roles

\* C26: a refresh token presented as the Bearer credential of a protected
\* route is answered 401 and the handler does not run
C26_TokenTypes ==
    \A t \in RefreshTokens :
       LET res == protected_test(Bearer(t)) IN res.status = 401 /\ ~res.ran

\* C28: once change_password has been answered 200 for a user, no ledger
\* record of that user is stored unrevoked by a refresh request that presented
\* a refresh token issued before the password change: the user's unrevoked
\* records stem from that call or from later logins
C28_PasswordChangeConcurrent ==
    [][\A w \in Workers :
          (req[w].pc = "revoked" /\ req'[w].pc = "idle")
             => \A r \in ledger' :
                   (r.id \notin Ids(ledger) /\ ~r.is_revoked /\ pwLast[r.user_id] # <<>>)
                      => req[w].jti \notin pwChanged
      ]_vars

\* C29: a logout request authenticated with one user's access token never
\* sets is_revoked on a ledger record owned by another user, whatever refresh
\* token its body carries
C29_LogoutOwnSessions ==
    \A h \in AccessHeaders, t \in Presentable :
       LET a == authenticate(h)
           res == logout(h, t)
       IN a.status = 0
             => \A r \in res.ledger :
                   (r.user_id # a.g.user_id /\ r.is_revoked) => r \in ledger

----------------------------------------------------------------------------
\* requests that are refused, next to the ones that are served
NextFailures ==
    \/ Tick
    \/ \E e \in {"admin@x", "user@x"}, p \in {"weak", "AdminPass1!", "UserPass1!"} : Login(e, p)
    \/ \E t \in {NoTok} \cup RefreshTokens : RefreshValidate("w1", t)
    \/ RefreshRevoke("w1")
    \/ RefreshStore("w1")
    \/ \E h \in AccessHeaders, c \in {<<"UserPass1!", "weak">>, <<"UserPass1!", "AdminPass1!">>} :
          ChangePassword(h, c[1], c[2])
    \/ \E h \in AccessHeaders, sid \in SessionIds : RevokeSession(h, sid)
    \/ \E h \in AccessHeaders, n \in {"", "x", "admin", "editor"} :
          CreateRole(h, n, "d1", << <<"m">> >>)
    \/ \E h \in AccessHeaders, n \in {"x", "admin"} :
          UpdateRole(h, n, Some("d1"), Some(<< <<"m">> >>))
    \/ \E h \in AccessHeaders, n \in {"x", "admin", "editor"} : DeleteRole(h, n)
    \/ \E h \in AccessHeaders, u \in {"u2", "u9"},
          rs \in {<<>>, <<"user", "x">>, <<"user", "editor">>} : UpdateUserRoles(h, u, rs)

SpecFailures == InitWith(MaxSessions) /\ [][NextFailures]_vars

\* the ledger L with nothing changed but revoked flags set on expired records
OnlyExpiredMarked(L) ==
    /\ Keys(L) = Keys(ledger)
    /\ \A r \in ledger : r \in L \/ (r.expires_at < now /\ ~r.is_revoked)

\* C30: a login, refresh, change_password, revoke_session or role-management
\* request that is answered with an error status leaves the users table
\* (last_login_at and password hash included), the roles table and the ledger
\* as they were and mints nothing; only refresh may set the revoked flag of
\* expired records
C30_FailedRequestsChangeNothing ==
    /\ \A e \in Emails \cup {""}, p \in Passwords :
          LET res == login(e, p) IN
          res.status >= 400 => res.users = users /\ res.ledger = ledger /\ res.mint = NoUser
    /\ \A t \in Presentable :
          LET res == refresh_token(t) IN
          res.status >= 400 => res.user = NoUser /\ OnlyExpiredMarked(res.ledger)
    /\ \A h \in CallerHeaders, c \in PasswordChanges :
          LET res == change_password(h, c[1], c[2]) IN
          res.status >= 400 => res.users = users /\ res.ledger = ledger /\ res.mint = NoUser
    /\ \A h \in CallerHeaders, sid \in SessionIds :
          LET res == revoke_session(h, sid) IN
          res.status >= 400 => res.users = users /\ res.ledger = ledger /\ res.mint = NoUser
    /\ \A h \in CallerHeaders, n \in RoleNameInputs :
          /\ \A d \in DescriptionInputs, ps \in PermissionLists :
                LET res == create_role(h, n, d, ps) IN
                res.status >= 400 => res.roles = roles /\ res.users = users
          /\ \A d \in {None, Some("d1")}, ps \in {None} \cup {Some(x) : x \in PermissionLists} :
                LET res == update_role(h, n, d, ps) IN
                res.status >= 400 => res.roles = roles /\ res.users = users
          /\ LET res == delete_role(h, n) IN
             res.status >= 400 => res.roles = roles /\ res.users = users
    /\ \A h \in CallerHeaders, u \in UserIdInputs, rs \in RoleLists :
          LET res == update_user_roles(h, u, rs) IN
          res.status >= 400 => res.roles = roles /\ res.users = users

C30_Witness ==
    /\ \E h \in AccessHeaders :
          /\ update_role(h, "admin", Some("d1"), Some(<< <<"m">> >>)).status = 403
          /\ update_user_roles(h, "u2", <<"user", "x">>).status = 404
          /\ change_password(h, "UserPass1!", "UserPass1!").status = 401
    /\ \E t \in RefreshTokens :
          /\ refresh_token(t).status = 401
          /\ \E r \in RowsOf(t.jti) : ~r.is_revoked
    /\ \E u \in DOMAIN users : users[u].last_login_at # NoTime
    /\ login("user@x", "AdminPass1!").status = 401

====
